---- MODULE Spec2Model ----
(***************************************************************************)
(* Model of the stock picker of src/lambda/lambda_function.py:             *)
(* the concurrent retrieval of indicator snapshots (fetch, get_data), the  *)
(* scoring of one snapshot (analyze_stock_indicators), the ranking done by *)
(* lambda_handler and the worksheet sink (export_to_sheets).               *)
(*                                                                         *)
(* Numbers.  The program computes with floats; the model computes with     *)
(* exact rationals over integers:                                          *)
(*   - an indicator (adx, macd, rsi, willR, stochastic_k,                  *)
(*     awesome_oscillator, momentum, the emas) is an integer number of    *)
(*     hundredths (4999 is 49.99);                                         *)
(*   - close and vwma are integer thousandths of the currency unit;        *)
(*   - win_signals and loss_signals are counts;                            *)
(*   - a sub-score is a fraction [n, d]; the composite score is the        *)
(*     numerator of a fraction over ScoreDen;                              *)
(*   - a decision's weighted_score is an integer number of 1/10000, its    *)
(*     prices are integer hundredths, as round(x, 4) and round(x, 2) leave *)
(*     them.                                                               *)
(***************************************************************************)
EXTENDS Integers, Sequences, FiniteSets, TLC

VARIABLES
    pc,                 \* position of the run
    symbols,            \* lambda_handler: `symbols`, the identifiers of the run
    response,           \* what the endpoint answers to each retrieval
    task,               \* get_data: state of each fetch coroutine
    done_order,         \* the order in which the retrievals completed
    results,            \* get_data / lambda_handler: `results`
    trade_decisions,    \* lambda_handler: `trade_decisions`
    picks,              \* lambda_handler: `picks` (rows of the data frame)
    ws,                 \* the worksheet "Trading Picks History"
    call,               \* the last call of export_to_sheets
    risk_parameters,    \* module global `risk_parameters`
    portfolio_capital,  \* module global `portfolio_capital`
    printed,            \* what the run printed
    raised              \* the exception that ended the run, if any

vars == <<pc, symbols, response, task, done_order, results, trade_decisions,
          picks, ws, call, risk_parameters, portfolio_capital, printed, raised>>

---------------------------------------------------------------------------
(* Bounds *)

MaxSymbols == 2         \* identifiers in one run
MaxRows == 2            \* decision rows in one direct export_to_sheets call
MaxGrid == 5            \* rows of the worksheet grid

---------------------------------------------------------------------------
(* Python helpers *)

None == "None"
NaN == "NaN"

Max(a, b) == IF a >= b THEN a ELSE b
Min(a, b) == IF a <= b THEN a ELSE b

\* a get that forgets its default: 0 for every missing key
GetOrZero(d, key, default) == IF key \in DOMAIN d THEN d[key] ELSE 0

\* dict.get(key, default)
Get(d, key, default) == IF key \in DOMAIN d THEN d[key] ELSE default

Frac(n, d) == [n |-> n, d |-> d]

\* round(x, ndigits): the multiple of the unit nearest to n/q, ties to even
RoundHalfEven(n, q) ==
    LET f == n \div q
        r == n % q
    IN  IF 2 * r < q THEN f
        ELSE IF 2 * r > q THEN f + 1
        ELSE IF f % 2 = 0 THEN f ELSE f + 1

\* int(x) of the quotient a / b: truncation toward zero (b > 0)
IntOfQuotient(a, b) == IF a >= 0 THEN a \div b ELSE -((-a) \div b)

---------------------------------------------------------------------------
(* analyze_stock_indicators *)

\* normalize without the clamp: (value - lower) / (upper - lower)
normalize_unclamped(value, lower, upper) ==
    Frac((value.n * lower.d - lower.n * value.d) * upper.d,
         value.d * (upper.n * lower.d - lower.n * upper.d))

\* normalize(value, lower, upper) = max(0, min((value-lower)/(upper-lower), 1))
\* on fractions; the result keeps the denominator value.d * (upper - lower)
normalize(value, lower, upper) ==
    LET num == (value.n * lower.d - lower.n * value.d) * upper.d
        den == value.d * (upper.n * lower.d - lower.n * upper.d)
    IN  Frac(Max(0, Min(num, den)), den)

safe_div(a, b) == IF b # 0 THEN Frac(a, b) ELSE Frac(0, 1)

Hundredths(v) == Frac(v, 100)
Whole(v) == Frac(v, 1)
OneMinus(s) == Frac(s.d - s.n, s.d)
Flag(b) == IF b THEN Frac(1, 1) ELSE Frac(0, 1)

EmaKeys == <<"ema5", "ema10", "ema20", "ema50", "ema100", "ema200">>

\* every sub-score weighted alike
weights_equal ==
    [trend_strength |-> 10, ema_alignment |-> 10, macd_trend |-> 10,
     rsi_score |-> 10, stoch_score |-> 10, willr_score |-> 10,
     momentum_score |-> 10, ao_score |-> 10, vwma_score |-> 10,
     performance_score |-> 10]

\* weights, in hundredths
weights ==
    [trend_strength |-> 15, ema_alignment |-> 10, macd_trend |-> 15,
     rsi_score |-> 10, stoch_score |-> 10, willr_score |-> 5,
     momentum_score |-> 10, ao_score |-> 10, vwma_score |-> 5,
     performance_score |-> 10]

SubScoreNames == DOMAIN weights

\* the ten normalized sub-scores of a snapshot
SubScores(indicators) ==
    LET adx == Get(indicators, "adx", 0)
        macd == Get(indicators, "macd", 0)
        rsi == Get(indicators, "rsi", 0)
        willr == Get(indicators, "willR", -10000)
        stoch == Get(indicators, "stochastic_k", 0)
        ao == Get(indicators, "awesome_oscillator", 0)
        momentum == Get(indicators, "momentum", 0)
        vwma == Get(indicators, "vwma", 0)
        close == Get(indicators, "close", 0)
        ema_values == [i \in 1..6 |-> Get(indicators, EmaKeys[i], 0)]
        win_signals == Get(indicators, "win_signals", 0)
        loss_signals == Get(indicators, "loss_signals", 0)
        total_signals == win_signals + loss_signals
        win_rate == safe_div(win_signals, total_signals)
    IN  [trend_strength |-> normalize(Hundredths(adx), Whole(0), Whole(50)),
         ema_alignment |->
             Flag(\A i \in 1..5 : ema_values[i] > ema_values[i + 1]),
         macd_trend |-> Flag(macd > 0),
         rsi_score |-> normalize(Hundredths(rsi), Whole(30), Whole(70)),
         stoch_score |-> normalize(Hundredths(stoch), Whole(20), Whole(80)),
         willr_score |->
             OneMinus(normalize(Hundredths(-willr), Whole(20), Whole(80))),
         momentum_score |-> Flag(momentum > 0),
         ao_score |-> normalize(Hundredths(ao), Whole(-50), Whole(50)),
         vwma_score |-> Flag(close >= vwma),
         performance_score |-> normalize(win_rate, Frac(3, 10), Frac(8, 10))]

\* the common denominator of the weighted sum: every sub-score denominator
\* (5000, 4000, 6000, 10000, 50 * total_signals, 1) times 100 divides it
ScoreDen(indicators) ==
    LET total_signals == Get(indicators, "win_signals", 0)
                         + Get(indicators, "loss_signals", 0)
    IN  6000000 * (IF total_signals = 0 THEN 1 ELSE total_signals)

\* sub-score * weight, as a numerator over den
Weighted(s, w, den) == s.n * w * (den \div (100 * s.d))

\* the composite score, unrounded, as a numerator over ScoreDen(indicators)
WeightedScore(indicators) ==
    LET s == SubScores(indicators)
        D == ScoreDen(indicators)
    IN  Weighted(s.trend_strength, weights.trend_strength, D)
        + Weighted(s.ema_alignment, weights.ema_alignment, D)
        + Weighted(s.macd_trend, weights.macd_trend, D)
        + Weighted(s.rsi_score, weights.rsi_score, D)
        + Weighted(s.stoch_score, weights.stoch_score, D)
        + Weighted(s.willr_score, weights.willr_score, D)
        + Weighted(s.momentum_score, weights.momentum_score, D)
        + Weighted(s.ao_score, weights.ao_score, D)
        + Weighted(s.vwma_score, weights.vwma_score, D)
        + Weighted(s.performance_score, weights.performance_score, D)

\* weighted_score >= pct / 100, for the score weighted_score / den
ScoreAtLeast(weighted_score, den, pct) == weighted_score >= (den \div 100) * pct

\* round(weighted_score, 4), in 1/10000
RoundedScore(weighted_score, den) ==
    RoundHalfEven(weighted_score, den \div 10000)

BuyReason == "Strong trend and positive momentum"
HoldReason == "Moderate momentum, trend still intact"
SellReason == "Weakening trend or momentum signals"

\* lines 175-183
Reason(weighted_score, den) ==
    IF ScoreAtLeast(weighted_score, den, 70) THEN BuyReason
    ELSE IF ScoreAtLeast(weighted_score, den, 45) THEN HoldReason
    ELSE SellReason

threshold == 60

\* line 193: weighted_score >= threshold
Enters(weighted_score, den) == ScoreAtLeast(weighted_score, den, threshold)

\* a slip of sign: buy_price * (1 + daily_stop_loss_percent / 100)
StopLossPriceAbove(buy_price, risk_params) ==
    RoundHalfEven(buy_price * (100 + risk_params.daily_stop_loss_percent), 1000)

\* stop_loss_price = buy_price * (1 - daily_stop_loss_percent / 100), rounded
StopLossPrice(buy_price, risk_params) ==
    RoundHalfEven(buy_price * (100 - risk_params.daily_stop_loss_percent), 1000)

\* a slip of digit: buy_price * (1 + 40 / 100)
TargetPriceForty(buy_price) == RoundHalfEven(buy_price * 140, 1000)

\* target_price = buy_price * (1 + 4 / 100), rounded
TargetPrice(buy_price) == RoundHalfEven(buy_price * 104, 1000)

\* the whole risk budget when risk_per_share is 0
MaxSharesBudgetWhenZero(buy_price, risk_params, portfolio_value) ==
    LET risk_per_share_num == buy_price * risk_params.daily_stop_loss_percent
    IN  IF risk_per_share_num # 0
        THEN IntOfQuotient(
                 portfolio_value * risk_params.per_trade_loss_percent * 1000,
                 risk_per_share_num)
        ELSE (portfolio_value * risk_params.per_trade_loss_percent) \div 100

\* int(max_per_trade_risk / risk_per_share), 0 when risk_per_share is 0;
\* risk_per_share = buy_price * daily_stop_loss_percent / 100 (unrounded)
MaxShares(buy_price, risk_params, portfolio_value) ==
    LET risk_per_share_num == buy_price * risk_params.daily_stop_loss_percent
    IN  IF risk_per_share_num # 0
        THEN IntOfQuotient(
                 portfolio_value * risk_params.per_trade_loss_percent * 1000,
                 risk_per_share_num)
        ELSE 0

\* the advisory reason attached before the branch, so to every decision
analyze_with_reason_always(indicators, risk_params, portfolio_value) ==
    LET weighted_score == WeightedScore(indicators)
        den == ScoreDen(indicators)
        symbol == Get(indicators, "symbol", None)
        segment == Get(indicators, "segment", None)
        reported == RoundedScore(weighted_score, den)
        buy_price == Get(indicators, "close", 0)
        stop == StopLossPrice(buy_price, risk_params)
        target == TargetPrice(buy_price)
    IN  IF Enters(weighted_score, den)
        THEN [symbol |-> symbol, segment |-> segment, params |-> indicators,
              weighted_score |-> reported,
              reason |-> Reason(weighted_score, den),
              enter |-> TRUE,
              buy_price |-> RoundHalfEven(buy_price, 10),
              stop_loss_price |-> stop,
              target_price |-> target,
              GTT |-> [stop_loss_trigger |-> stop, target_trigger |-> target],
              max_shares |->
                  MaxShares(buy_price, risk_params, portfolio_value)]
        ELSE [symbol |-> symbol, segment |-> segment, params |-> indicators,
              weighted_score |-> reported,
              reason |-> Reason(weighted_score, den),
              enter |-> FALSE]

analyze_stock_indicators(indicators, risk_params, portfolio_value) ==
    LET weighted_score == WeightedScore(indicators)
        den == ScoreDen(indicators)
        symbol == Get(indicators, "symbol", None)
        segment == Get(indicators, "segment", None)
        reported == RoundedScore(weighted_score, den)
        buy_price == Get(indicators, "close", 0)
        stop == StopLossPrice(buy_price, risk_params)
        target == TargetPrice(buy_price)
    IN  IF Enters(weighted_score, den)
        THEN [symbol |-> symbol, segment |-> segment, params |-> indicators,
              weighted_score |-> reported,
              enter |-> TRUE,
              buy_price |-> RoundHalfEven(buy_price, 10),
              stop_loss_price |-> stop,
              target_price |-> target,
              GTT |-> [stop_loss_trigger |-> stop, target_trigger |-> target],
              max_shares |->
                  MaxShares(buy_price, risk_params, portfolio_value)]
        ELSE [symbol |-> symbol, segment |-> segment, params |-> indicators,
              weighted_score |-> reported,
              enter |-> FALSE,
              reason |-> Reason(weighted_score, den)]

---------------------------------------------------------------------------
(* fetch and get_data *)

\* An identifier "segment:symbol" is kept as the list seg_sym.split(":")
\* gives (an identifier without a colon would be a list of one part).
Ids == {<<"NSE", "AAA">>, <<"NSE", "BBB">>}

\* the outcome of session.get(url): the connection fails, or a response with
\* a status and a body; a body is a JSON object, another JSON value, or not
\* JSON at all
NetworkError == [net |-> "error", status |-> 0, body |-> <<"none">>]
HttpResponse(status, body) == [net |-> "ok", status |-> status, body |-> body]
JsonObject(obj) == <<"object", obj>>
JsonArray == <<"array">>
NotJson == <<"garbage">>

\* results are dicts or strings: isinstance(data, dict) is the tag
Dict(d) == <<"dict", d>>
Str(s) == <<"str", s>>
IsDict(data) == data[1] = "dict"

\* fetch without response.raise_for_status()
fetch_no_status_check(seg_sym, resp) ==
    IF resp.net = "error" THEN Str("Error: cannot connect")
    ELSE IF resp.body[1] # "object" THEN Str("Error: cannot decode body")
    ELSE Dict([k \in DOMAIN resp.body[2] \cup {"segment", "symbol"} |->
                  IF k = "segment" THEN seg_sym[1]
                  ELSE IF k = "symbol" THEN seg_sym[2]
                  ELSE resp.body[2][k]])

\* fetch(session, seg_sym): every exception becomes the string "Error: ..."
fetch(seg_sym, resp) ==
    IF resp.net = "error" THEN Str("Error: cannot connect")
    ELSE IF resp.status >= 400
         THEN Str("Error: bad status")                 \* raise_for_status
    ELSE IF resp.body[1] = "garbage"
         THEN Str("Error: cannot decode body")         \* response.json()
    ELSE IF resp.body[1] # "object"
         THEN Str("Error: item assignment")            \* json_response[...]
    ELSE IF Len(seg_sym) < 2
         THEN Str("Error: list index out of range")    \* seg[1]
    ELSE Dict([k \in DOMAIN resp.body[2] \cup {"segment", "symbol"} |->
                  IF k = "segment" THEN seg_sym[1]
                  ELSE IF k = "symbol" THEN seg_sym[2]
                  ELSE resp.body[2][k]])

Pending == <<"pending">>
Done(result) == <<"done", result>>
IsDone(t) == t[1] = "done"

\* the results in the order of completion, as asyncio.as_completed gives them
gather_as_completed(tasks, order) ==
    [k \in 1..Len(order) |-> tasks[order[k]][2]]

\* asyncio.gather(*tasks, return_exceptions=True): the results in the order
\* of the tasks, whatever the order of completion
gather(tasks, order) == [i \in 1..Len(tasks) |-> tasks[i][2]]

---------------------------------------------------------------------------
(* the data frame and the ranking of lambda_handler *)

Columns == <<"date_time", "weighted_score", "segment", "symbol", "buy_price",
             "max_shares", "stop_loss_price", "target_price", "GTT", "enter",
             "reason", "params">>

ColumnSet == {Columns[i] : i \in 1..Len(Columns)}

execution_time == "Oct-02-2025 14:05"

\* pd.DataFrame(list of dicts): the columns are the union of the keys
FrameColumns(records) == UNION {DOMAIN records[i] : i \in 1..Len(records)}

RECURSIVE FilterFrom(_, _)
\* the subsequence of the records with enter == True, in their order
FilterFrom(records, i) ==
    IF i > Len(records) THEN <<>>
    ELSE IF records[i].enter = TRUE
         THEN <<records[i]>> \o FilterFrom(records, i + 1)
         ELSE FilterFrom(records, i + 1)

FilterEnter(records) == FilterFrom(records, 1)

\* ascending=[False, True]: the cheaper of two equal scores first
SortsBeforeAscendingPrice(a, b) ==
    \/ a.weighted_score > b.weighted_score
    \/ /\ a.weighted_score = b.weighted_score
       /\ a.buy_price < b.buy_price

\* sort_values(by=['weighted_score', 'buy_price'], ascending=[False, False]):
\* a comes strictly before b
SortsBefore(a, b) ==
    \/ a.weighted_score > b.weighted_score
    \/ /\ a.weighted_score = b.weighted_score
       /\ a.buy_price > b.buy_price

\* insert x after every element it does not sort strictly before
RECURSIVE InsertSorted(_, _)
InsertSorted(sorted, x) ==
    IF sorted = <<>> THEN <<x>>
    ELSE IF SortsBefore(x, Head(sorted)) THEN <<x>> \o sorted
    ELSE <<Head(sorted)>> \o InsertSorted(Tail(sorted), x)

RECURSIVE SortFrom(_, _, _)
SortFrom(records, i, sorted) ==
    IF i > Len(records) THEN sorted
    ELSE SortFrom(records, i + 1, InsertSorted(sorted, records[i]))

\* the multi-key sort of a frame keeps the order of rows with equal keys
sort_values(records) == SortFrom(records, 1, <<>>)

\* picks["date_time"] = execution_time; picks.reindex([...], axis=1)
reindex(rec) ==
    [c \in ColumnSet |->
        IF c = "date_time" THEN execution_time
        ELSE IF c \in DOMAIN rec THEN rec[c] ELSE NaN]

\* lines 414-425: the exception pandas raises, or "none"
RankError(decisions) ==
    IF "enter" \notin FrameColumns(decisions) THEN "KeyError: 'enter'"
    ELSE IF "buy_price" \notin FrameColumns(decisions)
         THEN "KeyError: 'buy_price'"
    ELSE "none"

Rank(decisions) ==
    LET sorted == sort_values(FilterEnter(decisions))
    IN  [i \in 1..Len(sorted) |-> reindex(sorted[i])]

---------------------------------------------------------------------------
(* the worksheet and export_to_sheets *)

\* A worksheet is the list of the rows of its grid.  A row is blank, the
\* header (the column names) or a data row (the cells of one decision).
Blank == <<"blank">>
HeaderRow == <<"header", Columns>>
DataRow(rec) == <<"row", rec>>

BlankRows(k) == [i \in 1..k |-> Blank]

RECURSIVE LastNonBlank(_, _)
LastNonBlank(sheet, i) ==
    IF i = 0 THEN 0
    ELSE IF sheet[i] # Blank THEN i ELSE LastNonBlank(sheet, i - 1)

\* ws.get_all_values(): the rows up to the last one that is not blank
get_all_values(sheet) == SubSeq(sheet, 1, LastNonBlank(sheet, Len(sheet)))

\* ws.clear(): every cell emptied, the grid kept
clear(sheet) == BlankRows(Len(sheet))

\* ws.resize(rows)
resize(sheet, rows) ==
    IF rows <= Len(sheet) THEN SubSeq(sheet, 1, rows)
    ELSE sheet \o BlankRows(rows - Len(sheet))

\* ws.add_rows(k)
add_rows(sheet, k) == sheet \o BlankRows(k)

\* gspread_dataframe.set_with_dataframe(worksheet, dataframe, row=...,
\*   include_column_header=..., resize=...): the grid is resized to the frame
\* (resize) or grown to hold it, then the header and the rows are written
\* from `row` on; the cells outside are left alone
set_with_dataframe(sheet, df, row, include_column_header, do_resize) ==
    LET head == IF include_column_header THEN 1 ELSE 0
        y == Len(df) + head + (row - 1)
        grid == IF do_resize THEN resize(sheet, y)
                ELSE IF Len(sheet) < y THEN resize(sheet, y) ELSE sheet
    IN  [i \in 1..Len(grid) |->
            IF include_column_header /\ i = row THEN HeaderRow
            ELSE IF i >= row + head /\ i < row + head + Len(df)
                 THEN DataRow(df[i - row - head + 1])
            ELSE grid[i]]

\* export_to_sheets without lines 371-372
ResolveModeAsGiven(sheet, mode) == mode

\* lines 370-372: the mode export_to_sheets acts in
ResolveMode(sheet, mode) ==
    LET max_rows == Len(get_all_values(sheet))
    IN  IF max_rows <= 1 /\ mode = "a" THEN "w" ELSE mode

True == <<"bool", TRUE>>
FrameOf(rows) == <<"frame", rows>>

\* append with row=max_rows: the last row is written over
export_to_sheets_row_off_by_one(sheet, df, mode) ==
    LET max_rows == Len(get_all_values(sheet))
        m == ResolveMode(sheet, mode)
    IN  IF m = "w"
        THEN [ws |-> set_with_dataframe(clear(sheet), df, 1, TRUE, TRUE),
              ret |-> True]
        ELSE IF m = "a"
        THEN [ws |-> set_with_dataframe(add_rows(sheet, Len(df)), df,
                                        max_rows, FALSE, FALSE),
              ret |-> True]
        ELSE [ws |-> sheet, ret |-> FrameOf(get_all_values(sheet))]

\* overwrite with include_column_header=False
export_to_sheets_no_header(sheet, df, mode) ==
    LET max_rows == Len(get_all_values(sheet))
        m == ResolveMode(sheet, mode)
    IN  IF m = "w"
        THEN [ws |-> set_with_dataframe(clear(sheet), df, 1, FALSE, TRUE),
              ret |-> True]
        ELSE IF m = "a"
        THEN [ws |-> set_with_dataframe(add_rows(sheet, Len(df)), df,
                                        max_rows + 1, FALSE, FALSE),
              ret |-> True]
        ELSE [ws |-> sheet, ret |-> FrameOf(get_all_values(sheet))]

\* append with include_column_header=True
export_to_sheets_append_with_header(sheet, df, mode) ==
    LET max_rows == Len(get_all_values(sheet))
        m == ResolveMode(sheet, mode)
    IN  IF m = "w"
        THEN [ws |-> set_with_dataframe(clear(sheet), df, 1, TRUE, TRUE),
              ret |-> True]
        ELSE IF m = "a"
        THEN [ws |-> set_with_dataframe(add_rows(sheet, Len(df)), df,
                                        max_rows + 1, TRUE, FALSE),
              ret |-> True]
        ELSE [ws |-> sheet, ret |-> FrameOf(get_all_values(sheet))]

\* export_to_sheets(df, mode): the worksheet afterwards and the value returned
export_to_sheets(sheet, df, mode) ==
    LET max_rows == Len(get_all_values(sheet))
        m == ResolveMode(sheet, mode)
    IN  IF m = "w"
        THEN [ws |-> set_with_dataframe(clear(sheet), df, 1, TRUE, TRUE),
              ret |-> True]
        ELSE IF m = "a"
        THEN [ws |-> set_with_dataframe(add_rows(sheet, Len(df)), df,
                                        max_rows + 1, FALSE, FALSE),
              ret |-> True]
        ELSE [ws |-> sheet, ret |-> FrameOf(get_all_values(sheet))]

---------------------------------------------------------------------------
(* the inputs *)

\* the module globals of lines 39-47
SourceRiskParameters ==
    [max_drawdown_percent |-> 5, per_trade_loss_percent |-> 1,
     daily_stop_loss_percent |-> 2, monthly_loss_percent |-> 4,
     trading_horizon_days |-> 14]

SourcePortfolioCapital == 100000

\* a field left out of a snapshot
Absent == -999999      \* no indicator takes this value

Present(rec) == [k \in {f \in DOMAIN rec : rec[f] # Absent} |-> rec[k]]

EmaDescending == <<600, 500, 400, 300, 200, 100>>
EmaAbsent == <<Absent, Absent, Absent, Absent, Absent, Absent>>

Snapshot(adx, macd, rsi, willR, stoch, ao, momentum, vwma, close, ema, sig) ==
    Present([adx |-> adx, macd |-> macd, rsi |-> rsi, willR |-> willR,
             stochastic_k |-> stoch, awesome_oscillator |-> ao,
             momentum |-> momentum, vwma |-> vwma, close |-> close,
             ema5 |-> ema[1], ema10 |-> ema[2], ema20 |-> ema[3],
             ema50 |-> ema[4], ema100 |-> ema[5], ema200 |-> ema[6],
             win_signals |-> sig[1], loss_signals |-> sig[2]])

\* the values a snapshot field takes when analyze_stock_indicators is
\* checked by itself
AdxValues == {Absent, -500, 4000, 4999}
MacdValues == {Absent, 500}
RsiValues == {Absent, 6000, 9000}
WillRValues == {Absent, -5000}
StochValues == {Absent, 8000}
AoValues == {Absent, -9000}
MomentumValues == {Absent, 100}
VwmaValues == {Absent, 99000}
CloseValues == {Absent, 100, 100000, 100125}
EmaValues == {EmaAbsent, EmaDescending}
SignalValues == {<<Absent, Absent>>, <<6, 4>>, <<1, 9>>}

StopLossPercents == {0, 2}
Capitals == {0, 100000}

\* the bodies the endpoint answers with in a run
Strong == Snapshot(4000, 500, 6000, Absent, Absent, Absent, 100, 99000,
                   100000, EmaDescending, <<6, 4>>)
StrongLow == Snapshot(4000, 500, 6000, Absent, Absent, Absent, 100, 49000,
                      50000, EmaDescending, <<6, 4>>)
Top == Snapshot(5000, 500, 6000, Absent, Absent, Absent, 100, Absent,
                80000, EmaDescending, <<6, 4>>)
Weak == Snapshot(1000, Absent, Absent, Absent, Absent, Absent, Absent,
                 Absent, 100000, EmaAbsent, <<Absent, Absent>>)

Responses ==
    {HttpResponse(200, JsonObject(Strong)),
     HttpResponse(200, JsonObject(StrongLow)),
     HttpResponse(200, JsonObject(Top)),
     HttpResponse(200, JsonObject(Weak)),
     HttpResponse(200, NotJson),
     HttpResponse(500, JsonObject(Strong)),
     NetworkError}

SeqsUpTo(S, n) == UNION {[1..k -> S] : k \in 0..n}

IsInjective(f) == \A i, j \in DOMAIN f : f[i] = f[j] => i = j

\* get_stocks_list(): a set of identifiers, iterated in some order
StockLists == {l \in SeqsUpTo(Ids, MaxSymbols) : IsInjective(l)}

\* the rows of the frames export_to_sheets is called with directly
RowA == reindex(analyze_stock_indicators(
            fetch(<<"NSE", "AAA">>, HttpResponse(200, JsonObject(Strong)))[2],
            SourceRiskParameters, SourcePortfolioCapital))
RowB == reindex(analyze_stock_indicators(
            fetch(<<"NSE", "BBB">>, HttpResponse(200, JsonObject(Top)))[2],
            SourceRiskParameters, SourcePortfolioCapital))

Frames == SeqsUpTo({RowA, RowB}, MaxRows)

\* a worksheet as created: an empty grid
NewSheet == BlankRows(2)

\* a new worksheet in which the header was typed by hand
TypedHeader == <<HeaderRow, Blank>>

NoCall == [mode |-> "none", df |-> <<>>, before |-> <<>>, after |-> <<>>,
           ret |-> <<"none">>]

---------------------------------------------------------------------------
(* lambda_handler: one run *)

Init ==
    /\ pc = "start"
    /\ symbols \in SeqsUpTo(Ids, MaxSymbols)
    /\ response = <<>>
    /\ task = <<>>
    /\ done_order = <<>>
    /\ results = <<>>
    /\ trade_decisions = <<>>
    /\ picks = <<>>
    /\ ws \in {NewSheet, export_to_sheets(NewSheet, <<RowB>>, "a").ws}
    /\ call = NoCall
    /\ risk_parameters = SourceRiskParameters
    /\ portfolio_capital = SourcePortfolioCapital
    /\ printed = <<>>
    /\ raised = "none"

\* the symbols counted before the fallback to the stored list
StartCountsEventSymbols ==
    /\ pc = "start"
    /\ \E list \in StockLists :
          symbols' = IF symbols = <<>> THEN list ELSE symbols
    /\ response' \in [1..Len(symbols') -> Responses]
    /\ task' = [i \in 1..Len(symbols') |-> Pending]
    /\ printed' = Append(printed, <<"Total stocks", Len(symbols)>>)
    /\ pc' = "gathering"
    /\ UNCHANGED <<done_order, results, trade_decisions, picks, ws, call,
                   risk_parameters, portfolio_capital, raised>>

\* lines 402-407 and 317-319: the symbols are resolved and counted, one
\* fetch is issued per identifier, and the run waits in gather
Start ==
    /\ pc = "start"
    /\ \E list \in StockLists :
          symbols' = IF symbols = <<>> THEN list ELSE symbols
    /\ response' \in [1..Len(symbols') -> Responses]
    /\ task' = [i \in 1..Len(symbols') |-> Pending]
    /\ printed' = Append(printed, <<"Total stocks", Len(symbols')>>)
    /\ pc' = "gathering"
    /\ UNCHANGED <<done_order, results, trade_decisions, picks, ws, call,
                   risk_parameters, portfolio_capital, raised>>

\* lines 301-313: one retrieval ends, with a snapshot or with an error string
Complete(i) ==
    /\ pc = "gathering"
    /\ task[i] = Pending
    /\ task' = [task EXCEPT ![i] = Done(fetch(symbols[i], response[i]))]
    /\ done_order' = Append(done_order, i)
    /\ UNCHANGED <<pc, symbols, response, results, trade_decisions, picks, ws,
                   call, risk_parameters, portfolio_capital, printed, raised>>

\* gather returning as soon as one retrieval has ended (FIRST_COMPLETED)
GatherReturnsFirstCompleted ==
    /\ pc = "gathering"
    /\ \E i \in 1..Len(task) : IsDone(task[i])
    /\ results' = [i \in 1..Len(task) |->
                      IF IsDone(task[i]) THEN task[i][2]
                      ELSE Str("Error: not finished")]
    /\ pc' = "gathered"
    /\ UNCHANGED <<symbols, response, task, done_order, trade_decisions,
                   picks, ws, call, risk_parameters, portfolio_capital,
                   printed, raised>>

\* lines 319-320 and 407: gather returns once every retrieval has ended
GatherReturns ==
    /\ pc = "gathering"
    /\ \A i \in 1..Len(task) : IsDone(task[i])
    /\ results' = gather(task, done_order)
    /\ pc' = "gathered"
    /\ UNCHANGED <<symbols, response, task, done_order, trade_decisions,
                   picks, ws, call, risk_parameters, portfolio_capital,
                   printed, raised>>

\* scoring every result, the failures included
ScoreAllResults(res, risk_params, portfolio_value) ==
    [i \in 1..Len(res) |->
        analyze_stock_indicators(
            IF IsDict(res[i]) THEN res[i][2] ELSE [error |-> res[i][2]],
            risk_params, portfolio_value)]

RECURSIVE ScoreFrom(_, _, _, _)
\* lines 408-412: one decision per result that is a dict
ScoreFrom(res, i, risk_params, portfolio_value) ==
    IF i > Len(res) THEN <<>>
    ELSE IF IsDict(res[i])
         THEN <<analyze_stock_indicators(res[i][2], risk_params,
                                         portfolio_value)>>
              \o ScoreFrom(res, i + 1, risk_params, portfolio_value)
         ELSE ScoreFrom(res, i + 1, risk_params, portfolio_value)

ScoreAll(res, risk_params, portfolio_value) ==
    ScoreFrom(res, 1, risk_params, portfolio_value)

\* the exception a failing call of the store raises, and a call that ends
\* by raising instead of returning
PersistenceError == "PersistenceError"
Raise(e) == <<"raise", e>>

\* where a failure of the store hits export_to_sheets
Faults == {"none", "open", "write"}

\* the worksheet a failed export_to_sheets leaves behind: nothing is written
\* when the store cannot be opened or read; when set_with_dataframe fails
\* the sheet is already cleared (mode w) or already extended (mode a)
AfterFault(sheet, df, mode, fault) ==
    IF fault = "open" THEN sheet
    ELSE IF ResolveMode(sheet, mode) = "w" THEN clear(sheet)
    ELSE IF ResolveMode(sheet, mode) = "a" THEN add_rows(sheet, Len(df))
    ELSE sheet

\* the export wrapped in try/except: a failure of the store is swallowed
\* and the run ends normally
FinishCatchesExportError ==
    /\ pc = "gathered"
    /\ LET decisions == ScoreAll(results, risk_parameters, portfolio_capital)
           error == RankError(decisions)
           ranked == Rank(decisions)
           out == export_to_sheets(ws, ranked, "a")
       IN  /\ trade_decisions' = decisions
           /\ IF error # "none"
              THEN /\ raised' = error
                   /\ pc' = "raised"
                   /\ UNCHANGED <<picks, ws, call, printed>>
              ELSE /\ picks' = ranked
                   /\ printed' = Append(printed, <<"Total picks", Len(ranked)>>)
                   /\ \E fault \in Faults :
                         IF fault = "none"
                         THEN /\ ws' = out.ws
                              /\ call' = [mode |-> "a", df |-> ranked,
                                          before |-> ws, after |-> out.ws,
                                          ret |-> out.ret]
                              /\ pc' = "done"
                              /\ raised' = "none"
                         ELSE /\ ws' = AfterFault(ws, ranked, "a", fault)
                              /\ call' = [mode |-> "a", df |-> ranked,
                                          before |-> ws, after |-> ws',
                                          ret |-> Raise(PersistenceError)]
                              /\ pc' = "done"
                              /\ raised' = "none"
    /\ UNCHANGED <<symbols, response, task, done_order, results,
                   risk_parameters, portfolio_capital>>

\* lines 408-428: scoring, ranking and export, without suspension
Finish ==
    /\ pc = "gathered"
    /\ LET decisions == ScoreAll(results, risk_parameters, portfolio_capital)
           error == RankError(decisions)
           ranked == Rank(decisions)
           out == export_to_sheets(ws, ranked, "a")
       IN  /\ trade_decisions' = decisions
           /\ IF error # "none"
              THEN /\ raised' = error
                   /\ pc' = "raised"
                   /\ UNCHANGED <<picks, ws, call, printed>>
              ELSE /\ picks' = ranked
                   /\ printed' = Append(printed, <<"Total picks", Len(ranked)>>)
                   /\ \E fault \in Faults :
                         IF fault = "none"
                         THEN /\ ws' = out.ws
                              /\ call' = [mode |-> "a", df |-> ranked,
                                          before |-> ws, after |-> out.ws,
                                          ret |-> out.ret]
                              /\ pc' = "done"
                              /\ raised' = "none"
                         ELSE /\ ws' = AfterFault(ws, ranked, "a", fault)
                              /\ call' = [mode |-> "a", df |-> ranked,
                                          before |-> ws, after |-> ws',
                                          ret |-> Raise(PersistenceError)]
                              /\ pc' = "raised"
                              /\ raised' = PersistenceError
    /\ UNCHANGED <<symbols, response, task, done_order, results,
                   risk_parameters, portfolio_capital>>

Next ==
    \/ Start
    \/ \E i \in 1..MaxSymbols : i <= Len(task) /\ Complete(i)
    \/ GatherReturns
    \/ Finish

Spec == Init /\ [][Next]_vars

\* A retrieval ends (the session's default timeout bounds every request),
\* and the event loop resumes gather once it can return.
FairSpec ==
    /\ Init
    /\ [][Next]_vars
    /\ \A i \in 1..MaxSymbols : WF_vars(i <= Len(task) /\ Complete(i))
    /\ WF_vars(GatherReturns)

---------------------------------------------------------------------------
(* analyze_stock_indicators by itself *)

InitScore ==
    /\ pc = "analyze"
    /\ \E adx \in AdxValues, macd \in MacdValues, rsi \in RsiValues,
          willR \in WillRValues, stoch \in StochValues, ao \in AoValues,
          momentum \in MomentumValues, vwma \in VwmaValues,
          close \in CloseValues, ema \in EmaValues, sig \in SignalValues :
          results = <<Dict(Snapshot(adx, macd, rsi, willR, stoch, ao,
                                    momentum, vwma, close, ema, sig))>>
    /\ \E p \in StopLossPercents :
          risk_parameters =
              [SourceRiskParameters EXCEPT !.daily_stop_loss_percent = p]
    /\ portfolio_capital \in Capitals
    /\ symbols = <<>>
    /\ response = <<>>
    /\ task = <<>>
    /\ done_order = <<>>
    /\ trade_decisions = <<>>
    /\ picks = <<>>
    /\ ws = NewSheet
    /\ call = NoCall
    /\ printed = <<>>
    /\ raised = "none"

\* one call of analyze_stock_indicators
Analyze ==
    /\ pc = "analyze"
    /\ trade_decisions' =
           ScoreAll(results, risk_parameters, portfolio_capital)
    /\ pc' = "analyzed"
    /\ UNCHANGED <<symbols, response, task, done_order, results, picks, ws,
                   call, risk_parameters, portfolio_capital, printed, raised>>

NextScore == Analyze

ScoreSpec == InitScore /\ [][NextScore]_vars

---------------------------------------------------------------------------
(* export_to_sheets by itself *)

Modes == {"w", "a", "r"}

InitExport ==
    /\ pc = "idle"
    /\ ws \in {NewSheet, TypedHeader}
    /\ call = NoCall
    /\ symbols = <<>>
    /\ response = <<>>
    /\ task = <<>>
    /\ done_order = <<>>
    /\ results = <<>>
    /\ trade_decisions = <<>>
    /\ picks = <<>>
    /\ risk_parameters = SourceRiskParameters
    /\ portfolio_capital = SourcePortfolioCapital
    /\ printed = <<>>
    /\ raised = "none"

\* one call export_to_sheets(df, mode) by the single writer
Export(df, mode) ==
    /\ pc = "idle"
    /\ LET out == export_to_sheets(ws, df, mode)
       IN  /\ Len(out.ws) <= MaxGrid
           /\ ws' = out.ws
           /\ call' = [mode |-> mode, df |-> df, before |-> ws,
                       after |-> out.ws, ret |-> out.ret]
    /\ UNCHANGED <<pc, symbols, response, task, done_order, results,
                   trade_decisions, picks, risk_parameters, portfolio_capital,
                   printed, raised>>

NextExport == \E df \in Frames, mode \in Modes : Export(df, mode)

ExportSpec == InitExport /\ [][NextExport]_vars

---------------------------------------------------------------------------
(* The claims *)

Decisions == {trade_decisions[i] : i \in 1..Len(trade_decisions)}

Analyzed == pc = "analyzed"

\* C1: the decision has enter = true if and only if its reported
\* weighted_score (rounded to 4 decimal places) is at least 0.6.
C1_EnterIffReportedScoreAtLeastThreshold ==
    \A i \in 1..Len(trade_decisions) :
        trade_decisions[i].enter = TRUE
            <=> trade_decisions[i].weighted_score >= 6000

\* the retrieval succeeds: no network error, a 2xx status, a JSON object
RetrievalSucceeds(resp) ==
    /\ resp.net = "ok"
    /\ resp.status \in 200..299
    /\ resp.body[1] = "object"

BatchReturned == pc \in {"gathered", "done", "raised"}

Successes == {i \in 1..Len(response) : RetrievalSucceeds(response[i])}
Failures == {i \in 1..Len(response) : ~RetrievalSucceeds(response[i])}

\* C2: get_data returns exactly one entry per input identifier, duplicates
\* included: the snapshot of that identifier when its retrieval succeeded, a
\* failure string when it failed; a failure neither cancels a sibling nor
\* raises out of the batch.
C2_OneEntryPerIdentifier ==
    /\ pc \in {"gathering", "gathered"} => raised = "none"
    /\ BatchReturned =>
          /\ Len(results) = Len(symbols)
          /\ \A i \in 1..Len(symbols) :
                IF RetrievalSucceeds(response[i])
                THEN /\ IsDict(results[i])
                     /\ results[i][2].segment = symbols[i][1]
                     /\ results[i][2].symbol = symbols[i][2]
                     /\ \A k \in DOMAIN response[i].body[2] :
                           results[i][2][k] = response[i].body[2][k]
                ELSE /\ results[i][1] = "str"
                     /\ results[i][2] \in {"Error: cannot connect",
                                           "Error: bad status",
                                           "Error: cannot decode body"}

\* a batch with a duplicated identifier of which one retrieval failed and
\* the other succeeded has returned
C2_Witness ==
    /\ BatchReturned
    /\ Len(symbols) = 2
    /\ symbols[1] = symbols[2]
    /\ 1 \in Failures
    /\ 2 \in Successes
    /\ done_order = <<1, 2>>

\* C3: under fairness (every issued retrieval eventually returns or fails,
\* and the event loop resumes a coroutine that can run) the batch eventually
\* completes, and it never completes while a retrieval is outstanding.
C3_BatchCompletes ==
    /\ [](pc \notin {"start", "gathering"} =>
            \A i \in 1..Len(task) : IsDone(task[i]))
    /\ (pc = "gathering") ~> (pc \notin {"start", "gathering"})

\* the batch has completed with two retrievals, one failed
C3_Witness ==
    /\ pc = "gathered"
    /\ Len(task) = 2
    /\ Failures # {}
    /\ Successes # {}
    /\ done_order = <<2, 1>>

Scored == pc \in {"done", "raised"}

\* C4: the scoring engine is called exactly once for each successful
\* snapshot and never for a failure: as many decisions as successful
\* retrievals, each decision made of one of the snapshots.
C4_OneDecisionPerSnapshot ==
    Scored =>
        /\ Len(trade_decisions) = Cardinality(Successes)
        /\ \A j \in 1..Len(trade_decisions) :
              \E i \in Successes : trade_decisions[j].params = results[i][2]
        /\ \A i \in Successes :
              \E j \in 1..Len(trade_decisions) :
                  trade_decisions[j].params = results[i][2]

\* a run of two identifiers, one failing: one snapshot, one failure entry,
\* one decision
C4_Witness ==
    /\ pc = "done"
    /\ Len(symbols) = 2
    /\ Cardinality(Failures) = 1
    /\ Len(trade_decisions) = 1

\* the ranking of lines 414-425 ended without an exception
Ranked == Scored /\ raised \in {"none", PersistenceError}

Count(seq, x) == Cardinality({i \in 1..Len(seq) : seq[i] = x})

EnteringRows ==
    {reindex(trade_decisions[i]) :
        i \in {j \in 1..Len(trade_decisions) : trade_decisions[j].enter = TRUE}}

RECURSIVE EnteringFrom(_, _)
EnteringFrom(seq, i) ==
    IF i > Len(seq) THEN <<>>
    ELSE (IF seq[i].enter = TRUE THEN <<reindex(seq[i])>> ELSE <<>>)
         \o EnteringFrom(seq, i + 1)

ExpectedDecisions ==
    ScoreAll([i \in 1..Len(symbols) |-> fetch(symbols[i], response[i])],
             risk_parameters, portfolio_capital)

\* C6: for a fixed sequence of identifiers and fixed responses, every order
\* of completion of the retrievals gives the same ranked output, in the same
\* order.
C6_OutputIndependentOfCompletionOrder ==
    Scored =>
        IF RankError(ExpectedDecisions) = "none"
        THEN Ranked /\ picks = Rank(ExpectedDecisions)
        ELSE raised = RankError(ExpectedDecisions)

\* two retrievals with decisions equal on both sort keys completed in the
\* reverse of their order of issue
C6_Witness ==
    /\ pc = "done"
    /\ done_order = <<2, 1>>
    /\ Len(picks) = 2
    /\ picks[1].weighted_score = picks[2].weighted_score
    /\ picks[1].buy_price = picks[2].buy_price
    /\ picks[1].symbol # picks[2].symbol

RowsBefore == Len(get_all_values(call.before))

Overwritten(df) == <<HeaderRow>> \o [j \in 1..Len(df) |-> DataRow(df[j])]

\* C7: on a store of 0 or 1 rows, export_to_sheets in mode 'a' leaves the
\* store exactly as mode 'w' leaves it from the same state.
C7_AppendOnShortStoreIsOverwrite ==
    (call.mode = "a" /\ RowsBefore <= 1) =>
        /\ call.after = export_to_sheets(call.before, call.df, "w").ws
        /\ call.after = Overwritten(call.df)
        /\ ws = call.after

\* an append of two rows to the empty sheet
C7_Witness ==
    /\ call.mode = "a"
    /\ RowsBefore = 0
    /\ Len(call.df) = 2
    /\ ws = Overwritten(call.df)

\* C8: on a store of n >= 2 rows, an append of k decisions leaves the first
\* n rows unchanged, writes no header, and puts the k rows at n+1..n+k: the
\* store then holds n+k rows.
C8_AppendKeepsRowsAndAddsNew ==
    (call.mode = "a" /\ RowsBefore >= 2) =>
        LET n == RowsBefore
            k == Len(call.df)
        IN  /\ \A i \in 1..n : call.after[i] = call.before[i]
            /\ \A j \in 1..k : call.after[n + j] = DataRow(call.df[j])
            /\ \A i \in (n + 1)..Len(call.after) : call.after[i] # HeaderRow
            /\ Len(get_all_values(call.after)) = n + k
            /\ ws = call.after

\* two rows appended to a store of the header and one row
C8_Witness ==
    /\ call.mode = "a"
    /\ RowsBefore = 2
    /\ Len(call.df) = 2
    /\ Len(get_all_values(ws)) = 4
    /\ ws[1] = HeaderRow
    /\ ws[2] # ws[3]

\* C9: in mode 'w' the store afterwards holds exactly the header row and the
\* k decision rows; no row of the prior content remains.
C9_OverwriteLeavesHeaderAndRows ==
    call.mode = "w" =>
        /\ get_all_values(call.after) = Overwritten(call.df)
        /\ ws = call.after

\* a store of the header and two rows overwritten with one other row
C9_Witness ==
    /\ call.mode = "w"
    /\ RowsBefore = 3
    /\ Len(call.df) = 1
    /\ DataRow(call.df[1]) # call.before[2]
    /\ DataRow(call.df[1]) # call.before[3]
    /\ get_all_values(ws) = <<HeaderRow, DataRow(call.df[1])>>

\* the close of the snapshot that was scored, in thousandths
ScoredClose(d) == Get(d.params, "close", 0)

\* C10 as claimed: every entering decision computed from a positive
\* daily_stop_loss_percent has its stop_loss_price strictly below its
\* buy_price.
C10_StopLossStrictlyBelowBuyPrice ==
    \A d \in Decisions :
        (d.enter = TRUE /\ risk_parameters.daily_stop_loss_percent > 0)
            => d.stop_loss_price < d.buy_price

\* C10 as amended: with a positive daily_stop_loss_percent and a close >= 0
\* the stop_loss_price of an entering decision is never above its buy_price, and it is strictly
\* below whenever the risk per share, close * daily_stop_loss_percent / 100,
\* is at least 0.02.
C10_StopLossNotAboveBuyPrice ==
    \A d \in Decisions :
        (/\ d.enter = TRUE
         /\ risk_parameters.daily_stop_loss_percent > 0
         /\ ScoredClose(d) >= 0) =>
            /\ d.stop_loss_price <= d.buy_price
            /\ ScoredClose(d) * risk_parameters.daily_stop_loss_percent >= 2000
                  => d.stop_loss_price < d.buy_price

\* an entering decision at close 100.125 and 2 percent: 98.12 below 100.12
C10_Witness ==
    /\ Analyzed
    /\ risk_parameters.daily_stop_loss_percent = 2
    /\ \E d \in Decisions :
          /\ d.enter = TRUE
          /\ ScoredClose(d) = 100125
          /\ d.buy_price = 10012
          /\ d.stop_loss_price = 9812

---------------------------------------------------------------------------
(* Position sizing and prices of an entering decision *)

\* risk_per_share of the snapshot that was scored, in 1/100000: the
\* unrounded buy_price - stop_loss_price of lines 195-208
RiskPerShare(d) ==
    ScoredClose(d) * risk_parameters.daily_stop_loss_percent

\* max_per_trade_risk, in 1/100000
MaxPerTradeRisk ==
    portfolio_capital * risk_parameters.per_trade_loss_percent * 1000

C12_PricesAndSizeExact ==
    \A d \in Decisions :
        d.enter = TRUE =>
            /\ d.buy_price * 10 = ScoredClose(d)
            /\ d.stop_loss_price * 100 =
                   d.buy_price * (100 - risk_parameters.daily_stop_loss_percent)
            /\ d.target_price * 100 = d.buy_price * 104
            /\ d.buy_price # d.stop_loss_price =>
                   d.max_shares =
                       (portfolio_capital
                            * risk_parameters.per_trade_loss_percent)
                           \div (d.buy_price - d.stop_loss_price)

\* C12 as amended: the decision carries the close, the close times
\* (1 - daily_stop_loss_percent / 100) and the close times 1.04, each within
\* half a cent (rounded to two decimals from the unrounded close), and
\* max_shares is the floor of the risk budget over the unrounded risk per
\* share, 0 when that is 0; at close 100, 2 percent, 1 percent and 100000
\* the stop is 98.00 and max_shares 500.
C12_PricesRoundedSizeFromUnrounded ==
    \A d \in Decisions :
        (d.enter = TRUE /\ ScoredClose(d) >= 0) =>
            /\ d.buy_price * 10 - ScoredClose(d) \in -5..5
            /\ d.stop_loss_price * 1000
                   - ScoredClose(d)
                         * (100 - risk_parameters.daily_stop_loss_percent)
                   \in -500..500
            /\ d.target_price * 1000 - ScoredClose(d) * 104 \in -500..500
            /\ IF RiskPerShare(d) = 0
               THEN d.max_shares = 0
               ELSE /\ d.max_shares * RiskPerShare(d) <= MaxPerTradeRisk
                    /\ (d.max_shares + 1) * RiskPerShare(d) > MaxPerTradeRisk
            /\ (/\ ScoredClose(d) = 100000
                /\ risk_parameters.daily_stop_loss_percent = 2
                /\ risk_parameters.per_trade_loss_percent = 1
                /\ portfolio_capital = 100000) =>
                   /\ d.buy_price = 10000
                   /\ d.stop_loss_price = 9800
                   /\ d.target_price = 10400
                   /\ d.max_shares = 500

\* the example of the claim, scored
C12_Witness ==
    /\ Analyzed
    /\ risk_parameters.daily_stop_loss_percent = 2
    /\ risk_parameters.per_trade_loss_percent = 1
    /\ portfolio_capital = 100000
    /\ \E d \in Decisions :
          /\ d.enter = TRUE
          /\ ScoredClose(d) = 100000
          /\ d.stop_loss_price = 9800
          /\ d.max_shares = 500

---------------------------------------------------------------------------
(* The sub-scores and the composite score *)

\* the snapshots handed to analyze_stock_indicators
Snapshots == {results[i][2] : i \in {j \in 1..Len(results) : IsDict(results[j])}}

\* C13: each of the ten sub-scores of a scored snapshot lies in [0, 1],
\* whatever the indicator values, those outside their range included.
C13_SubScoresInUnitInterval ==
    \A s \in Snapshots :
        LET sub == SubScores(s)
        IN  \A k \in SubScoreNames :
                /\ sub[k].d > 0
                /\ sub[k].n >= 0
                /\ sub[k].n <= sub[k].d

\* a snapshot scored with adx below, rsi above and awesome_oscillator below
\* their ranges
C13_Witness ==
    /\ Analyzed
    /\ \E s \in Snapshots :
          /\ Get(s, "adx", 0) = -500
          /\ Get(s, "rsi", 0) = 9000
          /\ Get(s, "awesome_oscillator", 0) = -9000
          /\ LET sub == SubScores(s)
             IN  /\ sub.trend_strength.n = 0
                 /\ sub.rsi_score.n = sub.rsi_score.d
                 /\ sub.ao_score.n = 0

\* the snapshot of C14: adx 40, rsi 60, macd 5, descending emas, close not
\* below vwma, 6 wins and 4 losses, positive momentum, nothing else
IsC14Snapshot(s) ==
    /\ Get(s, "adx", Absent) = 4000
    /\ Get(s, "rsi", Absent) = 6000
    /\ Get(s, "macd", Absent) = 500
    /\ \A i \in 1..6 : Get(s, EmaKeys[i], Absent) = EmaDescending[i]
    /\ Get(s, "close", 0) >= Get(s, "vwma", 0)
    /\ Get(s, "win_signals", Absent) = 6
    /\ Get(s, "loss_signals", Absent) = 4
    /\ Get(s, "momentum", Absent) > 0
    /\ \A k \in {"willR", "stochastic_k", "awesome_oscillator"} :
          k \notin DOMAIN s

\* C14: the decision for that snapshot has a score of at least 0.7 and
\* enters.
C14_StrongSnapshotEnters ==
    \A d \in Decisions :
        IsC14Snapshot(d.params) =>
            /\ d.enter = TRUE
            /\ d.weighted_score >= 7000
            /\ ScoreAtLeast(WeightedScore(d.params), ScoreDen(d.params), 70)

\* that snapshot scored, with a close above its vwma: 0.705
C14_Witness ==
    /\ Analyzed
    /\ \E d \in Decisions :
          /\ IsC14Snapshot(d.params)
          /\ Get(d.params, "vwma", Absent) = 99000
          /\ Get(d.params, "close", Absent) = 100000
          /\ d.weighted_score = 7050

\* the numeric fields analyze_stock_indicators reads, with the value the
\* claim gives a missing one
FieldDefaults ==
    [adx |-> 0, macd |-> 0, rsi |-> 0, willR |-> -10000, stochastic_k |-> 0,
     awesome_oscillator |-> 0, momentum |-> 0, vwma |-> 0, close |-> 0,
     ema5 |-> 0, ema10 |-> 0, ema20 |-> 0, ema50 |-> 0, ema100 |-> 0,
     ema200 |-> 0, win_signals |-> 0, loss_signals |-> 0]

\* the snapshot with every missing numeric field written out
Filled(s) ==
    [k \in DOMAIN s \cup DOMAIN FieldDefaults |->
        IF k \in DOMAIN s THEN s[k] ELSE FieldDefaults[k]]

MissingFields(s) == DOMAIN FieldDefaults \ DOMAIN s

\* C15: whatever fields a snapshot lacks, analyze_stock_indicators returns
\* a decision, the same as for the snapshot with 0 written for each missing
\* field (-100 for willR); with every field missing the decision does not
\* enter.
C15_MissingFieldsReadAsDefaults ==
    Analyzed =>
        /\ Len(trade_decisions) = Len(results)
        /\ \A i \in 1..Len(trade_decisions) :
              LET d == trade_decisions[i]
                  s == results[i][2]
                  f == analyze_stock_indicators(Filled(s), risk_parameters,
                                                portfolio_capital)
              IN  /\ d.params = s
                  /\ [d EXCEPT !.params = <<>>] = [f EXCEPT !.params = <<>>]
                  /\ MissingFields(s) = DOMAIN FieldDefaults
                        => d.enter = FALSE

\* the snapshot with every numeric field missing, scored: 0.1, no entry
C15_Witness ==
    /\ Analyzed
    /\ \E d \in Decisions :
          /\ MissingFields(d.params) = DOMAIN FieldDefaults
          /\ d.enter = FALSE
          /\ d.weighted_score = 1000

CommonFields == {"symbol", "segment", "params", "weighted_score", "enter"}

EntryFields ==
    {"buy_price", "stop_loss_price", "target_price", "GTT", "max_shares"}

---------------------------------------------------------------------------
(* The end of a run *)

\* the call of export_to_sheets ended by raising
ExportFailed == call.ret = Raise(PersistenceError)

\* C17: when the store fails inside export_to_sheets (opening, reading or
\* writing), the failure leaves export_to_sheets and lambda_handler as it
\* was raised: the run ends with that exception and never as a normal
\* completion, and a run that completes normally has had its export return.
C17_PersistenceFailurePropagates ==
    /\ ExportFailed => (pc = "raised" /\ raised = PersistenceError)
    /\ pc = "done" =>
          /\ raised = "none"
          /\ call.ret = True
          /\ ws = export_to_sheets(call.before, picks, "a").ws

\* a write that fails on a store with rows: the run ends with the exception
\* and leaves the rows added and blank
C17_Witness ==
    /\ pc = "raised"
    /\ raised = PersistenceError
    /\ ExportFailed
    /\ Len(picks) > 0
    /\ Len(get_all_values(call.before)) >= 2
    /\ ws = add_rows(call.before, Len(picks))

\* C18 as claimed: every run that completes has reported three counts, the
\* symbols attempted, the snapshots scored and the decisions persisted.
C18_ThreeCountsReported ==
    pc = "done" =>
        \E i, j, k \in 1..Len(printed) :
            /\ i # j /\ j # k /\ i # k
            /\ printed[i][2] = Len(symbols)
            /\ printed[j][2] = Len(trade_decisions)
            /\ printed[k][2] = Len(picks)

\* C18 as amended: every run that completes has reported exactly two
\* counts, first the symbols attempted and then the decisions it persisted
\* (the picks, all written by the export that returned).
C18_TwoCountsReported ==
    pc = "done" =>
        /\ printed = << <<"Total stocks", Len(symbols)>>,
                        <<"Total picks", Len(picks)>> >>
        /\ call.df = picks
        /\ call.ret = True
        /\ \A i \in 1..Len(picks) :
              \E r \in 1..Len(ws) : ws[r] = DataRow(picks[i])

\* a completed run of two symbols, both retrieved and scored, one
\* persisted: the counts printed are 2 and 1
C18_Witness ==
    /\ pc = "done"
    /\ Len(symbols) = 2
    /\ Len(trade_decisions) = 2
    /\ Len(picks) = 1
    /\ printed = << <<"Total stocks", 2>>, <<"Total picks", 1>> >>

\* C19: a run in which no decision enters (every score below the threshold,
\* or every retrieval failed) ranks without error and reaches
\* export_to_sheets with zero rows.
C19_NoEntryRunReachesExport ==
    (Scored /\ \A d \in Decisions : d.enter = FALSE) =>
        /\ raised \notin {"KeyError: 'enter'", "KeyError: 'buy_price'"}
        /\ call.mode = "a"
        /\ call.df = <<>>

---------------------------------------------------------------------------
(* The header of the store *)

\* C20: after any sequence of export_to_sheets calls on a store that began
\* empty or with the header alone, the store, when not empty, has the
\* header as its first row and in no other row.
C20_HeaderFirstAndOnlyFirst ==
    LET rows == get_all_values(ws)
    IN  rows # <<>> =>
            /\ rows[1] = HeaderRow
            /\ \A i \in 2..Len(rows) : rows[i] # HeaderRow

\* an append of an empty list to a store of header and rows, after which
\* the store still has them
C20_Witness ==
    /\ call.mode = "a"
    /\ call.df = <<>>
    /\ RowsBefore >= 3
    /\ ws[1] = HeaderRow
    /\ Len(get_all_values(ws)) = RowsBefore

---------------------------------------------------------------------------
(* The advisory reason *)

\* C21: a reason is attached only to decisions that do not enter, so no
\* decision carries the BUY reason: a reason present in a decision is the
\* HOLD reason, with the decision's score in [0.45, 0.6), or the SELL
\* reason, with the decision's score below 0.45; and a decision that enters,
\* the only kind the ranked output holds, has no reason.
C21_ReasonOnlyHoldOrSellByScore ==
    \A d \in Decisions :
        IF "reason" \in DOMAIN d
        THEN /\ d.enter = FALSE
             /\ d.reason # BuyReason
             /\ d.reason \in {HoldReason, SellReason}
             /\ d.reason = HoldReason =>
                   (d.weighted_score >= 4500 /\ d.weighted_score < 6000)
             /\ d.reason = SellReason => d.weighted_score < 4500
        ELSE d.enter = TRUE

====
